---- MODULE Spec2Model ----
(***************************************************************************)
(* charm/toolbox/symcrypto.py: MessageAuthenticator,                       *)
(* SymmetricCryptoAbstraction and AuthenticatedCryptoAbstraction.          *)
(*                                                                         *)
(* Byte strings are sequences of 0..255, text strings are sequences of     *)
(* code points; a Python value is [type |-> "str" | "bytes", val |-> seq]. *)
(* sha256 and HMAC are collision free symbols; the block cipher, the       *)
(* padding scheme and the random source are the collaborators of           *)
(* charm.core / charm.toolbox that symcrypto.py imports.                   *)
(***************************************************************************)
EXTENDS Integers, Sequences, FiniteSets, TLC

(* ------------------------------ bounds -------------------------------- *)
\* encrypt calls of one behaviour (each draws from the random source)
MaxEncrypts == 2
\* threads of execution that may call into one instance
NumThreads == 2

(* --------------------------- python values ---------------------------- *)
Str(s) == [type |-> "str", val |-> s]
Bytes(b) == [type |-> "bytes", val |-> b]
NoVal == [type |-> "none", val |-> <<>>]

\* the UTF-8 bytes of one code point below 2048
Utf8Char(c) == IF c < 128 THEN <<c>> ELSE <<192 + (c \div 64), 128 + (c % 64)>>

RECURSIVE Utf8(_)
\* str.encode("utf-8"): the bytes of each character, in order
Utf8(s) ==
  IF Len(s) = 0 THEN <<>>
  ELSE IF Len(s) = 1 THEN Utf8Char(s[1])
  ELSE LET h == Len(s) \div 2
       IN  Utf8(SubSeq(s, 1, h)) \o Utf8(SubSeq(s, h + 1, Len(s)))

\* `if type(x) != bytes: x = bytes(x, "utf-8")`
ToBytes(x) == IF x.type # "bytes" THEN Utf8(x.val) ELSE x.val

(* ------------------------------ base64 -------------------------------- *)
PadChar == 61

B64Char(i) ==
  IF i < 26 THEN 65 + i
  ELSE IF i < 52 THEN 97 + (i - 26)
  ELSE IF i < 62 THEN 48 + (i - 52)
  ELSE IF i = 62 THEN 43 ELSE 47

B64Index(c) ==
  IF c >= 65 /\ c <= 90 THEN c - 65
  ELSE IF c >= 97 /\ c <= 122 THEN c - 97 + 26
  ELSE IF c >= 48 /\ c <= 57 THEN c - 48 + 52
  ELSE IF c = 43 THEN 62
  ELSE IF c = 47 THEN 63 ELSE -1

RECURSIVE b64encode(_)
\* base64.b64encode(x).decode('utf-8')
b64encode(b) ==
  IF Len(b) = 0 THEN <<>>
  ELSE IF Len(b) = 1 THEN
    LET n == b[1] * 65536
    IN  <<B64Char(n \div 262144), B64Char((n \div 4096) % 64), PadChar, PadChar>>
  ELSE IF Len(b) = 2 THEN
    LET n == b[1] * 65536 + b[2] * 256
    IN  <<B64Char(n \div 262144), B64Char((n \div 4096) % 64),
          B64Char((n \div 64) % 64), PadChar>>
  ELSE
    LET n == b[1] * 65536 + b[2] * 256 + b[3]
    IN  <<B64Char(n \div 262144), B64Char((n \div 4096) % 64),
          B64Char((n \div 64) % 64), B64Char(n % 64)>>
        \o b64encode(SubSeq(b, 4, Len(b)))

\* the input is a whole number of quadruples of alphabet characters, with
\* padding only at the end of the last one
B64WellFormed(s) ==
  /\ Len(s) % 4 = 0
  /\ \A i \in 1..Len(s) :
       \/ B64Index(s[i]) >= 0
       \/ /\ s[i] = PadChar
          /\ i >= Len(s) - 1
          /\ (i = Len(s) - 1 => s[Len(s)] = PadChar)

RECURSIVE B64Quads(_)
B64Quads(s) ==
  IF Len(s) = 0 THEN <<>>
  ELSE
    LET i3 == IF s[3] = PadChar THEN 0 ELSE B64Index(s[3])
        i4 == IF s[4] = PadChar THEN 0 ELSE B64Index(s[4])
        n  == B64Index(s[1]) * 262144 + B64Index(s[2]) * 4096 + i3 * 64 + i4
        three == <<n \div 65536, (n \div 256) % 256, n % 256>>
        got == IF s[3] = PadChar THEN SubSeq(three, 1, 1)
               ELSE IF s[4] = PadChar THEN SubSeq(three, 1, 2)
               ELSE three
    IN  got \o B64Quads(SubSeq(s, 5, Len(s)))

\* base64.b64decode(bytes(x, 'utf-8')): ok is FALSE where it raises
b64decode(s) ==
  IF B64WellFormed(s) THEN [ok |-> TRUE, val |-> B64Quads(s)]
  ELSE [ok |-> FALSE, val |-> <<>>]

(* ------------------------------- json --------------------------------- *)
RECURSIVE Decimal(_)
Decimal(n) == IF n < 10 THEN <<48 + n>> ELSE Decimal(n \div 10) \o <<48 + (n % 10)>>

\* '{"ALG": '   ', "MODE": '   ', "IV": "'   '", "CipherText": "'   '"}'
JsonAlg == <<123, 34, 65, 76, 71, 34, 58, 32>>
JsonMode == <<44, 32, 34, 77, 79, 68, 69, 34, 58, 32>>
JsonIV == <<44, 32, 34, 73, 86, 34, 58, 32, 34>>
JsonCipherText == <<34, 44, 32, 34, 67, 105, 112, 104, 101, 114, 84, 101, 120, 116, 34, 58, 32, 34>>
JsonEnd == <<34, 125>>

\* json.dumps of the dict built by _encrypt and _encode, keys in insertion order
JsonDumps(d) ==
  JsonAlg \o Decimal(d.ALG) \o JsonMode \o Decimal(d.MODE)
     \o JsonIV \o d.IV \o JsonCipherText \o d.CipherText \o JsonEnd

IsSpace(c) == c \in {32, 9, 10, 13}
IsDigit(c) == c >= 48 /\ c <= 57

RECURSIVE LStrip(_)
LStrip(s) == IF s # <<>> /\ IsSpace(Head(s)) THEN LStrip(Tail(s)) ELSE s

RECURSIVE RStrip(_)
RStrip(s) ==
  IF s # <<>> /\ IsSpace(s[Len(s)]) THEN RStrip(SubSeq(s, 1, Len(s) - 1)) ELSE s

StartsWith(s, p) == Len(s) >= Len(p) /\ SubSeq(s, 1, Len(p)) = p
Drop(s, n) == SubSeq(s, n + 1, Len(s))

\* the least element of a non-empty set of numbers
Least(S) == CHOOSE i \in S : \A j \in S : i <= j

\* length of the longest prefix of s without the character c
SpanLen(s, c) ==
  LET at == {i \in 1..Len(s) : s[i] = c}
  IN  IF at = {} THEN Len(s) ELSE Least(at) - 1

\* length of the longest prefix of s made of digits
DigitsLen(s) ==
  LET at == {i \in 1..Len(s) : ~IsDigit(s[i])}
  IN  IF at = {} THEN Len(s) ELSE Least(at) - 1

RECURSIVE DecimalValue(_)
DecimalValue(s) ==
  IF s = <<>> THEN 0 ELSE DecimalValue(SubSeq(s, 1, Len(s) - 1)) * 10 + (s[Len(s)] - 48)

JsonError == [ok |-> FALSE, ALG |-> 0, MODE |-> 0, IV |-> <<>>, CipherText |-> <<>>]

\* json.loads on the documents this model feeds it: the document json.dumps
\* writes, with white space around it; ok is FALSE where it raises
JsonLoads(text) ==
  LET s0 == RStrip(LStrip(text))
  IN  IF ~StartsWith(s0, JsonAlg) THEN JsonError
      ELSE
      LET s1 == Drop(s0, Len(JsonAlg))
          n1 == DigitsLen(s1)
          s2 == Drop(s1, n1)
      IN  IF n1 = 0 \/ ~StartsWith(s2, JsonMode) THEN JsonError
          ELSE
          LET s3 == Drop(s2, Len(JsonMode))
              n3 == DigitsLen(s3)
              s4 == Drop(s3, n3)
          IN  IF n3 = 0 \/ ~StartsWith(s4, JsonIV) THEN JsonError
              ELSE
              LET s5 == Drop(s4, Len(JsonIV))
                  n5 == SpanLen(s5, 34)
                  s6 == Drop(s5, n5)
              IN  IF ~StartsWith(s6, JsonCipherText) THEN JsonError
                  ELSE
                  LET s7 == Drop(s6, Len(JsonCipherText))
                      n7 == SpanLen(s7, 34)
                      s8 == Drop(s7, n7)
                  IN  IF s8 # JsonEnd THEN JsonError
                      ELSE [ok |-> TRUE,
                            ALG |-> DecimalValue(SubSeq(s1, 1, n1)),
                            MODE |-> DecimalValue(SubSeq(s3, 1, n3)),
                            IV |-> SubSeq(s5, 1, n5),
                            CipherText |-> SubSeq(s7, 1, n7)]

(* ------------------ sha256 and HMAC (hashlib, hmac) ------------------- *)
\* sha256(x).digest(): a symbol of x, equal only for equal x
sha2(x) == [sha2 |-> x]
\* length in bytes of a sha256 digest
DigestSize == 32

\* hmac.new(key, data, digestmod=sha2).hexdigest(): a symbol of (key, data).
\* delta is 0 in the string hexdigest returns; a string with delta > 0 is that
\* string with characters changed
HmacHexdigest(key, data) == [key |-> key, data |-> data, delta |-> 0]
NoDigest == [key |-> sha2(<<>>), data |-> <<>>, delta |-> 0]

\* bytes(hexdigest, 'utf-8') of a digest string
HexBytes(d) == [utf8 |-> d]

(* ------- collaborators: PKCS7Padding, OpenSSLRand, selectPRP ---------- *)
RECURSIVE XorByte(_, _, _)
XorByte(a, b, bits) ==
  IF bits = 0 THEN 0
  ELSE (((a % 2) + (b % 2)) % 2) + 2 * XorByte(a \div 2, b \div 2, bits - 1)

XorBlock(a, b) == [i \in 1..Len(a) |-> XorByte(a[i], b[i], 8)]

\* the block permutation under a key, and its inverse
PrpBlock(key, blk) == [i \in 1..Len(blk) |-> (blk[i] + key[((i - 1) % Len(key)) + 1]) % 256]
PrpBlockInv(key, blk) == [i \in 1..Len(blk) |-> (blk[i] - key[((i - 1) % Len(key)) + 1]) % 256]

RECURSIVE CbcEncrypt(_, _, _, _)
CbcEncrypt(key, prev, data, bs) ==
  IF data = <<>> THEN <<>>
  ELSE LET c == PrpBlock(key, XorBlock(SubSeq(data, 1, bs), prev))
       IN  c \o CbcEncrypt(key, c, SubSeq(data, bs + 1, Len(data)), bs)

RECURSIVE CbcDecrypt(_, _, _, _)
CbcDecrypt(key, prev, data, bs) ==
  IF data = <<>> THEN <<>>
  ELSE LET c == SubSeq(data, 1, bs)
       IN  XorBlock(PrpBlockInv(key, c), prev)
             \o CbcDecrypt(key, c, SubSeq(data, bs + 1, Len(data)), bs)

\* selectPRP(alg, (key, mode, IV)): a cipher instance bound to one IV
selectPRP(alg, key, mode, IV) == [alg |-> alg, key |-> key, mode |-> mode, IV |-> IV]
NoCipher == selectPRP(0, <<>>, 0, <<>>)

\* cipher.encrypt(data) and cipher.decrypt(data) in CBC mode
CipherEncrypt(cipher, data) == CbcEncrypt(cipher.key, cipher.IV, data, Len(cipher.IV))
CipherDecrypt(cipher, data) ==
  IF Len(cipher.IV) = 0 \/ Len(data) = 0 \/ Len(data) % Len(cipher.IV) # 0
  THEN [ok |-> FALSE, val |-> <<>>]
  ELSE [ok |-> TRUE, val |-> CbcDecrypt(cipher.key, cipher.IV, data, Len(cipher.IV))]

\* PKCS7Padding().encode(message)
PaddingEncode(b, bs) ==
  LET n == bs - (Len(b) % bs) IN b \o [i \in 1..n |-> n]

\* PKCS7Padding().decode(message): ok is FALSE on invalid padding
PaddingDecode(b, bs) ==
  IF Len(b) = 0 THEN [ok |-> FALSE, val |-> <<>>]
  ELSE LET n == b[Len(b)]
       IN  IF /\ n >= 1
              /\ n <= bs
              /\ n <= Len(b)
              /\ \A i \in (Len(b) - n + 1)..Len(b) : b[i] = n
           THEN [ok |-> TRUE, val |-> SubSeq(b, 1, Len(b) - n)]
           ELSE [ok |-> FALSE, val |-> <<>>]

\* OpenSSLRand().getRandomBytes(n), the k-th draw of the behaviour: a secure
\* source never returns the same block twice
getRandomBytes(n, k) == [i \in 1..n |-> k]

(* ----------------- cryptobase constants, class fields ----------------- *)
AES == 0
MODE_CBC == 2
key_len == 16
block_size == 16

\* "HMAC_SHA2", and a tag this module does not support ("HMAC_MD5")
HMAC_SHA2 == <<72, 77, 65, 67, 95, 83, 72, 65, 50>>
HMAC_MD5 == <<72, 77, 65, 67, 95, 77, 68, 53>>
\* b'Poor Mans Key Extractor'
KeyExtractor == <<80, 111, 111, 114, 32, 77, 97, 110, 115, 32, 75, 101, 121, 32, 69, 120, 116, 114, 97, 99, 116, 111, 114>>

(* ------------------------ MessageAuthenticator ------------------------ *)
\* MessageAuthenticator(key): alg defaults to "HMAC_SHA2"
MessageAuthenticator(key) == [_algorithm |-> HMAC_SHA2, _key |-> key]

\* faulty variant: the additional data is left out of the MAC input
MacInputNoAD(m, msg, additionalData) == Utf8(m._algorithm) \o Utf8(msg)

\* the bytes mac() feeds to HMAC
MacInput(m, msg, additionalData) ==
  Utf8(m._algorithm) \o ToBytes(additionalData) \o Utf8(msg)

mac(m, msg, additionalData) ==
  [alg |-> m._algorithm,
   msg |-> msg,
   digest |-> HmacHexdigest(m._key, MacInput(m, msg, additionalData))]

NoEnvelope == [alg |-> <<>>, msg |-> <<>>, digest |-> NoDigest]

\* faulty variant: the digests are compared without their changed characters
verifyLoose(m, msgAndDigest, additionalData) ==
  IF msgAndDigest.alg # m._algorithm THEN "raise"
  ELSE LET expected == mac(m, msgAndDigest.msg, additionalData).digest
           received == [msgAndDigest.digest EXCEPT !.delta = 0]
       IN  IF sha2(HexBytes(expected)) = sha2(HexBytes(received)) THEN "True" ELSE "False"

\* verify(): "raise" (unsupported algorithm), "True" or "False"
verify(m, msgAndDigest, additionalData) ==
  IF msgAndDigest.alg # m._algorithm THEN "raise"
  ELSE LET expected == HexBytes(mac(m, msgAndDigest.msg, additionalData).digest)
           received == HexBytes(msgAndDigest.digest)
       IN  IF sha2(expected) = sha2(received) THEN "True" ELSE "False"

(* --------------------- SymmetricCryptoAbstraction --------------------- *)
Min(a, b) == IF a < b THEN a ELSE b

\* key[0:self.key_len]
TruncatedKey(key) == SubSeq(key, 1, Min(key_len, Len(key)))

NoInstance ==
  [cls |-> "none", _alg |-> 0, _mode |-> 0, key_len |-> 0, _block_size |-> 0,
   _key |-> <<>>, _IV |-> <<>>]

\* __init__: the object, when the assertion on the key length passes
NewInstance(cls, key) ==
  [cls |-> cls, _alg |-> AES, _mode |-> MODE_CBC, key_len |-> key_len,
   _block_size |-> block_size, _key |-> TruncatedKey(key), _IV |-> <<>>]

\* faulty variant: the assertion on the key length is gone
KeyAssertionOff(key) == TRUE

KeyAssertion(key) == Len(TruncatedKey(key)) = key_len

\* faulty variant: an IV already stored in the object is used again
InitCipherCached(o, IV, fresh) ==
  [o EXCEPT !._IV = IF IV # <<>> THEN IV ELSE IF o._IV # <<>> THEN o._IV ELSE fresh]

\* _initCipher up to `self._IV = IV`: the object with the IV stored. The
\* argument IV is <<>> for None, fresh is what the random source returns
InitCipher(o, IV, fresh) == [o EXCEPT !._IV = IF IV = <<>> THEN fresh ELSE IV]

\* faulty variant: only the ciphertext is base64 encoded
EncodeCipherTextOnly(ct) == [ct EXCEPT !.CipherText = b64encode(ct.CipherText)]

\* _encode / _decode on the two fields
Encode(ct) == [ct EXCEPT !.IV = b64encode(ct.IV), !.CipherText = b64encode(ct.CipherText)]

\* faulty variant: the key is left out of the derivation
MacKeyConstant(obj) == sha2(KeyExtractor)

\* sha2(b'Poor Mans Key Extractor' + self._key).digest()
MacKey(obj) == sha2(KeyExtractor \o obj._key)

(* ------------------------------ inputs -------------------------------- *)
Threads == 1..NumThreads
\* slots for objects: claims compare at most two objects
Instances == {1, 2}

\* keys a caller may supply: a sha256 digest (32 bytes), two keys that agree
\* with it on the first 16 bytes, one that does not, and one that is too short
Key32 == [i \in 1..32 |-> 16 + i]
Key16 == SubSeq(Key32, 1, 16)
Key32b == [i \in 1..32 |-> IF i <= 16 THEN 16 + i ELSE 200]
KeyOther == [i \in 1..16 |-> 100 + i]
KeyShort == SubSeq(Key32, 1, 15)
AllKeys == {Key32, Key16, Key32b, KeyOther, KeyShort}

\* messages: the text 'é', the empty byte string, b'xxxxxxxxxxxxxxxx'
MsgText == Str(<<233>>)
MsgEmpty == Bytes(<<>>)
MsgBlock == Bytes([i \in 1..16 |-> 120])

\* additional data: omitted, the text 'é', its UTF-8 bytes, b' '
AdText == Str(<<233>>)
AdBytes == Bytes(<<195, 169>>)
AdSpace == Bytes(<<32>>)
AllADs == {NoVal, AdText, AdBytes, AdSpace}

\* what may happen to an envelope between encrypt and decrypt
AllTampers == {"none", "digest", "iv", "ct", "alg", "space", "char"}

OtherChar(c) == IF c = 65 THEN 66 ELSE 65

\* the envelope the receiver's decrypt is handed
Tamper(env, how) ==
  LET f == JsonLoads(env.msg)
  IN  CASE how = "digest" -> [env EXCEPT !.digest.delta = 1]
        [] how = "alg" -> [env EXCEPT !.alg = HMAC_MD5]
        [] how = "iv" ->
             [env EXCEPT !.msg = JsonDumps([f EXCEPT !.IV = <<OtherChar(f.IV[1])>> \o Tail(f.IV)])]
        [] how = "ct" ->
             [env EXCEPT !.msg = JsonDumps([f EXCEPT !.CipherText =
                                   <<OtherChar(f.CipherText[1])>> \o Tail(f.CipherText)])]
        [] how = "space" -> [env EXCEPT !.msg = <<32>> \o env.msg]
        [] how = "char" -> [env EXCEPT !.msg = <<233>> \o env.msg]
        [] OTHER -> env

(* ------------------------------- state -------------------------------- *)
VARIABLES
  inst,    \* inst[i]: the object in slot i (cls "none": not constructed)
  ctor,    \* ctor[i]: the last constructor call for slot i
  rand,    \* draws made from the random source
  pc,      \* pc[t]: where thread t is in its call
  op,      \* op[t]: the call thread t is in or was last in
  obj,     \* obj[t]: the slot of the object thread t called
  args,    \* args[t]: the arguments of that call
  loc,     \* loc[t]: its local variables
  drew,    \* drew[t]: draws made by that call
  trace,   \* trace[t]: what that call did so far
  ret,     \* ret[t]: what that call returned or raised
  sent     \* the encrypt calls that returned, in order

vars == <<inst, ctor, rand, pc, op, obj, args, loc, drew, trace, ret, sent>>

NoArgs == [msg |-> NoVal, ad |-> NoVal, env |-> NoEnvelope, src |-> 0, how |-> "none"]
NoLoc ==
  [mac |-> MessageAuthenticator(sha2(<<>>)), cipher |-> NoCipher,
   IV |-> <<>>, CipherText |-> <<>>]
NoRet == [kind |-> "none", env |-> NoEnvelope, val |-> <<>>, err |-> ""]
Raise(e) == [NoRet EXCEPT !.kind = "error", !.err = e]
ReturnBytes(b) == [NoRet EXCEPT !.kind = "bytes", !.val = b]
ReturnEnv(e) == [NoRet EXCEPT !.kind = "env", !.env = e]

Init ==
  /\ inst = [i \in Instances |-> NoInstance]
  /\ ctor = [i \in Instances |-> [tried |-> FALSE, key |-> <<>>, cls |-> "none", ok |-> FALSE]]
  /\ rand = 0
  /\ pc = [t \in Threads |-> "idle"]
  /\ op = [t \in Threads |-> "none"]
  /\ obj = [t \in Threads |-> 1]
  /\ args = [t \in Threads |-> NoArgs]
  /\ loc = [t \in Threads |-> NoLoc]
  /\ drew = [t \in Threads |-> 0]
  /\ trace = [t \in Threads |-> <<>>]
  /\ ret = [t \in Threads |-> NoRet]
  /\ sent = <<>>

\* the default of the additionalData parameter of the AEAD methods
DefaultAD(ad) == IF ad = NoVal THEN Str(<<>>) ELSE ad

(* ----------------------------- __init__ ------------------------------- *)
Construct(i, cls, key) ==
  /\ inst[i].cls = "none"
  /\ ctor' = [ctor EXCEPT ![i] = [tried |-> TRUE, key |-> key, cls |-> cls,
                                  ok |-> KeyAssertion(key)]]
  /\ inst' = IF KeyAssertion(key) THEN [inst EXCEPT ![i] = NewInstance(cls, key)] ELSE inst
  /\ UNCHANGED <<rand, pc, op, obj, args, loc, drew, trace, ret, sent>>

(* ------------------------------ encrypt ------------------------------- *)
EncPcs == {"enc_init", "enc_prp", "enc_ct"}
Encrypting == {t \in Threads : pc[t] \in EncPcs}

\* encrypt(msg, additionalData) is entered; the AEAD class builds its
\* MessageAuthenticator first
CallEncrypt(t, i, msg, ad) ==
  /\ pc[t] = "idle"
  /\ inst[i].cls # "none"
  /\ inst[i].cls = "Sym" => ad = NoVal
  /\ Len(sent) + Cardinality(Encrypting) < MaxEncrypts
  /\ pc' = [pc EXCEPT ![t] = "enc_init"]
  /\ op' = [op EXCEPT ![t] = "encrypt"]
  /\ obj' = [obj EXCEPT ![t] = i]
  /\ args' = [args EXCEPT ![t] = [NoArgs EXCEPT !.msg = msg, !.ad = ad]]
  /\ loc' = [loc EXCEPT ![t] =
               IF inst[i].cls = "Auth"
               THEN [NoLoc EXCEPT !.mac = MessageAuthenticator(MacKey(inst[i]))]
               ELSE NoLoc]
  /\ drew' = [drew EXCEPT ![t] = 0]
  /\ trace' = [trace EXCEPT ![t] = <<>>]
  /\ ret' = [ret EXCEPT ![t] = NoRet]
  /\ UNCHANGED <<inst, ctor, rand, sent>>

\* _encrypt: _initCipher() draws the IV and stores it in self._IV
EncInitCipher(t) ==
  /\ pc[t] = "enc_init"
  /\ LET o == inst[obj[t]]
         fresh == getRandomBytes(o._block_size, rand + 1)
     IN  /\ inst' = [inst EXCEPT ![obj[t]] = InitCipher(o, <<>>, fresh)]
         /\ loc' = [loc EXCEPT ![t].IV = fresh]
  /\ rand' = rand + 1
  /\ drew' = [drew EXCEPT ![t] = @ + 1]
  /\ pc' = [pc EXCEPT ![t] = "enc_prp"]
  /\ trace' = [trace EXCEPT ![t] = Append(@, "draw")]
  /\ UNCHANGED <<ctor, op, obj, args, ret, sent>>

\* _initCipher: `return selectPRP(self._alg, (self._key, self._mode, self._IV))`
EncSelectPRP(t) ==
  /\ pc[t] = "enc_prp"
  /\ LET o == inst[obj[t]]
     IN  loc' = [loc EXCEPT ![t].cipher = selectPRP(o._alg, o._key, o._mode, o._IV)]
  /\ pc' = [pc EXCEPT ![t] = "enc_ct"]
  /\ trace' = [trace EXCEPT ![t] = Append(@, "cipher")]
  /\ UNCHANGED <<inst, ctor, rand, op, obj, args, drew, ret, sent>>

\* the dict _encrypt builds, with the cipher it was handed
EncryptDict(o, cipher, message) ==
  [ALG |-> o._alg,
   MODE |-> o._mode,
   IV |-> o._IV,
   CipherText |-> CipherEncrypt(cipher, PaddingEncode(message, o._block_size))]

\* the rest of _encrypt and of encrypt: the dict, its encoding, json.dumps,
\* and for the AEAD class the MAC over the result
EncFinish(t) ==
  /\ pc[t] = "enc_ct"
  /\ LET o == inst[obj[t]]
         ct == EncryptDict(o, loc[t].cipher, ToBytes(args[t].msg))
         cte == JsonDumps(Encode(ct))
         env == IF o.cls = "Auth"
                THEN mac(loc[t].mac, cte, DefaultAD(args[t].ad))
                ELSE [NoEnvelope EXCEPT !.msg = cte]
     IN  /\ ret' = [ret EXCEPT ![t] = ReturnEnv(env)]
         /\ sent' = Append(sent, [obj |-> obj[t], cls |-> o.cls, key |-> o._key,
                                  msg |-> args[t].msg, ad |-> args[t].ad, env |-> env,
                                  mac_key |-> loc[t].mac._key,
                                  drawn |-> loc[t].IV, eiv |-> ct.IV,
                                  civ |-> loc[t].cipher.IV, drew |-> drew[t]])
  /\ pc' = [pc EXCEPT ![t] = "done"]
  /\ trace' = [trace EXCEPT ![t] = Append(@, "encrypt")]
  /\ UNCHANGED <<inst, ctor, rand, op, obj, args, loc, drew>>

(* ------------------------------ decrypt ------------------------------- *)
\* decrypt(cipherText, additionalData) is entered with the k-th envelope that
\* was sent, changed on the way as `how` says
CallDecrypt(t, i, k, how, ad) ==
  /\ pc[t] = "idle"
  /\ inst[i].cls # "none"
  /\ k \in 1..Len(sent)
  /\ sent[k].cls = inst[i].cls
  /\ inst[i].cls = "Sym" => (ad = NoVal /\ how = "none")
  /\ pc' = [pc EXCEPT ![t] = IF inst[i].cls = "Auth" THEN "dec_verify" ELSE "dec_loads"]
  /\ op' = [op EXCEPT ![t] = "decrypt"]
  /\ obj' = [obj EXCEPT ![t] = i]
  /\ args' = [args EXCEPT ![t] = [NoArgs EXCEPT !.ad = ad, !.env = Tamper(sent[k].env, how),
                                                !.src = k, !.how = how]]
  /\ loc' = [loc EXCEPT ![t] =
               IF inst[i].cls = "Auth"
               THEN [NoLoc EXCEPT !.mac = MessageAuthenticator(MacKey(inst[i]))]
               ELSE NoLoc]
  /\ drew' = [drew EXCEPT ![t] = 0]
  /\ trace' = [trace EXCEPT ![t] = <<>>]
  /\ ret' = [ret EXCEPT ![t] = NoRet]
  /\ UNCHANGED <<inst, ctor, rand, sent>>

\* faulty variant: a failed verification does not stop the call
DecryptGateFailOpen(verified) ==
  IF verified = "raise" THEN "UnsupportedAlgorithm" ELSE "decrypt"

\* faulty variant: the error verify raises is swallowed
DecryptGateSwallow(verified) ==
  IF verified = "False" THEN "InvalidMac" ELSE "decrypt"

\* `if not mac.verify(...): raise ValueError("Invalid mac. ...") else: ...`
\* on what verify did
DecryptGate(verified) ==
  IF verified = "raise" THEN "UnsupportedAlgorithm"
  ELSE IF verified = "True" THEN "decrypt"
  ELSE "InvalidMac"

Verify(t) ==
  /\ pc[t] = "dec_verify"
  /\ LET v == verify(loc[t].mac, args[t].env, DefaultAD(args[t].ad))
         g == DecryptGate(v)
     IN  /\ trace' = [trace EXCEPT ![t] = Append(@, "verify_" \o v)]
         /\ IF g = "decrypt"
            THEN /\ pc' = [pc EXCEPT ![t] = "dec_loads"]
                 /\ ret' = ret
            ELSE /\ pc' = [pc EXCEPT ![t] = "done"]
                 /\ ret' = [ret EXCEPT ![t] = Raise(g)]
  /\ UNCHANGED <<inst, ctor, rand, op, obj, args, loc, drew, sent>>

\* SymmetricCryptoAbstraction.decrypt: json.loads, _decode, and _initCipher(IV)
\* up to `self._IV = IV`
DecLoads(t) ==
  /\ pc[t] = "dec_loads"
  /\ trace' = [trace EXCEPT ![t] = Append(@, "sym_decrypt")]
  /\ LET f == JsonLoads(args[t].env.msg)
         iv == b64decode(f.IV)
         ctx == b64decode(f.CipherText)
     IN  IF f.ok /\ iv.ok /\ ctx.ok
         THEN /\ inst' = [inst EXCEPT ![obj[t]] = InitCipher(@, iv.val, <<>>)]
              /\ loc' = [loc EXCEPT ![t].IV = iv.val, ![t].CipherText = ctx.val]
              /\ pc' = [pc EXCEPT ![t] = "dec_prp"]
              /\ ret' = ret
         ELSE /\ pc' = [pc EXCEPT ![t] = "done"]
              /\ ret' = [ret EXCEPT ![t] = Raise("DecodingError")]
              /\ UNCHANGED <<inst, loc>>
  /\ UNCHANGED <<ctor, rand, op, obj, args, drew, sent>>

\* the rest of _initCipher and of _decrypt: selectPRP with self._IV,
\* cipher.decrypt, and the padding removed
DecFinish(t) ==
  /\ pc[t] = "dec_prp"
  /\ LET o == inst[obj[t]]
         cipher == selectPRP(o._alg, o._key, o._mode, o._IV)
         m == CipherDecrypt(cipher, loc[t].CipherText)
         u == PaddingDecode(m.val, o._block_size)
     IN  /\ loc' = [loc EXCEPT ![t].cipher = cipher]
         /\ ret' = [ret EXCEPT ![t] =
                      IF ~m.ok THEN Raise("CipherError")
                      ELSE IF ~u.ok THEN Raise("PaddingError")
                      ELSE ReturnBytes(u.val)]
  /\ pc' = [pc EXCEPT ![t] = "done"]
  /\ trace' = [trace EXCEPT ![t] = Append(@, "cipher")]
  /\ UNCHANGED <<inst, ctor, rand, op, obj, args, drew, sent>>

\* the call is over: the caller has the result, the frame and its locals are gone
Return(t) ==
  /\ pc[t] = "done"
  /\ pc' = [pc EXCEPT ![t] = "idle"]
  /\ op' = [op EXCEPT ![t] = "none"]
  /\ obj' = [obj EXCEPT ![t] = 1]
  /\ args' = [args EXCEPT ![t] = NoArgs]
  /\ loc' = [loc EXCEPT ![t] = NoLoc]
  /\ drew' = [drew EXCEPT ![t] = 0]
  /\ trace' = [trace EXCEPT ![t] = <<>>]
  /\ ret' = [ret EXCEPT ![t] = NoRet]
  /\ UNCHANGED <<inst, ctor, rand, sent>>

(* --------------------------- specifications --------------------------- *)
\* the steps of threads T on objects I built from Keys, with the inputs given
NextFor(T, I, Classes, Keys, Msgs, ADs, Hows) ==
  \/ \E i \in I, cls \in Classes, key \in Keys : Construct(i, cls, key)
  \/ \E t \in T, i \in I, msg \in Msgs, ad \in ADs : CallEncrypt(t, i, msg, ad)
  \/ \E t \in T : EncInitCipher(t)
  \/ \E t \in T : EncSelectPRP(t)
  \/ \E t \in T : EncFinish(t)
  \/ \E t \in T, i \in I, k \in 1..MaxEncrypts + 1, how \in Hows, ad \in ADs :
        CallDecrypt(t, i, k, how, ad)
  \/ \E t \in T : Verify(t)
  \/ \E t \in T : DecLoads(t)
  \/ \E t \in T : DecFinish(t)
  \/ \E t \in T : Return(t)

\* calls run one after another on one object; envelopes arrive unchanged
Next == NextFor({1}, {1}, {"Sym", "Auth"}, {Key32, KeyOther, KeyShort}, {MsgText, MsgBlock}, AllADs, {"none"})
Spec == Init /\ [][Next]_vars

\* calls run one after another on one AEAD object; envelopes may be changed
TamperNext == NextFor({1}, {1}, {"Auth"}, {Key32}, {MsgText}, {NoVal, AdBytes, AdSpace}, AllTampers)
TamperSpec == Init /\ [][TamperNext]_vars

\* the threads call into one object
ConcNext == NextFor(Threads, {1}, {"Sym", "Auth"}, {Key32}, {MsgText}, {NoVal}, {"none"})
ConcSpec == Init /\ [][ConcNext]_vars

\* two objects, built from every key
KeyNext == NextFor({1}, Instances, {"Sym", "Auth"}, AllKeys, {MsgEmpty}, {NoVal}, {"none"})
KeySpec == Init /\ [][KeyNext]_vars

(* ------------------------------- claims ------------------------------- *)
AuthDecrypt(t) == op[t] = "decrypt" /\ inst[obj[t]].cls = "Auth"
Finished(t) == pc[t] = "done"
\* the envelope a decrypt call was handed, as encrypt returned it
Source(t) == sent[args[t].src]
AdForm(ad) == ToBytes(DefaultAD(ad))
Expected(msg) == IF msg.type = "str" THEN Utf8(msg.val) ELSE msg.val

\* C1: in a decrypt call of the AEAD class the symmetric decryption step runs
\* only after verify returned True in that call, and a call whose verify
\* returned False ends with the invalid-mac error without that step
C1_FailClosedOrdering ==
  \A t \in Threads :
    AuthDecrypt(t) =>
      /\ \A n \in 1..Len(trace[t]) :
           trace[t][n] = "sym_decrypt" => (n = 2 /\ trace[t][1] = "verify_True")
      /\ pc[t] \in {"dec_loads", "dec_prp"} => trace[t][1] = "verify_True"
      /\ (Len(trace[t]) >= 1 /\ trace[t][1] = "verify_False") =>
           /\ Finished(t)
           /\ trace[t] = <<"verify_False">>
           /\ ret[t] = Raise("InvalidMac")

C1_Witness ==
  \E t \in Threads :
    /\ AuthDecrypt(t)
    /\ Finished(t)
    /\ args[t].how = "iv"
    /\ ret[t] = Raise("InvalidMac")

\* C2: decrypt of what encrypt returned, with the additional data encrypt was
\* given, returns the bytes of the message, for both classes
C2_RoundTrip ==
  \A t \in Threads :
    (op[t] = "decrypt" /\ Finished(t) /\ args[t].how = "none" /\ args[t].ad = Source(t).ad) =>
      ret[t] = ReturnBytes(Expected(Source(t).msg))

C2_Witness ==
  \E t \in Threads :
    /\ op[t] = "decrypt"
    /\ Finished(t)
    /\ inst[obj[t]].cls = "Sym"
    /\ Source(t).msg = MsgText
    /\ ret[t] = ReturnBytes(<<195, 169>>)

\* C3 as stated: decrypt of an unchanged envelope fails with the invalid-mac
\* error whenever the two additional data are different values, and returns
\* the message when they are the same value
C3_Original ==
  \A t \in Threads :
    (AuthDecrypt(t) /\ Finished(t) /\ args[t].how = "none") =>
      IF args[t].ad # Source(t).ad
      THEN ret[t] = Raise("InvalidMac")
      ELSE ret[t] = ReturnBytes(Expected(Source(t).msg))

\* C3 amended: decrypt of an unchanged envelope fails with the invalid-mac
\* error whenever the byte forms of the two additional data differ (text is
\* UTF-8 encoded, omitted is empty), and returns the message when they agree
C3_AdditionalDataBinding ==
  \A t \in Threads :
    (AuthDecrypt(t) /\ Finished(t) /\ args[t].how = "none") =>
      IF AdForm(args[t].ad) # AdForm(Source(t).ad)
      THEN ret[t] = Raise("InvalidMac")
      ELSE ret[t] = ReturnBytes(Expected(Source(t).msg))

C3_Witness ==
  \E t \in Threads :
    /\ AuthDecrypt(t)
    /\ Finished(t)
    /\ Source(t).ad = AdSpace
    /\ args[t].ad = NoVal
    /\ ret[t] = Raise("InvalidMac")

\* C4: an envelope changed in its digest, in the IV or in the CipherText of
\* its msg is rejected with the invalid-mac error; the symmetric decryption
\* is never reached and no plaintext is returned
C4_TamperDetection ==
  \A t \in Threads :
    (AuthDecrypt(t) /\ args[t].how \in {"digest", "iv", "ct"} /\ args[t].ad = Source(t).ad) =>
      /\ pc[t] \in {"dec_verify", "done"}
      /\ ret[t].kind # "bytes"
      /\ Finished(t) => ret[t] = Raise("InvalidMac")

C4_Witness ==
  \E t \in Threads :
    /\ AuthDecrypt(t)
    /\ Finished(t)
    /\ args[t].how = "ct"
    /\ args[t].ad = Source(t).ad
    /\ ret[t] = Raise("InvalidMac")

\* C5: under every interleaving each envelope carries the IV its cipher
\* instance was bound to, and decrypting it returns the message of that call
C5_SameInstanceConcurrency ==
  /\ \A k \in 1..Len(sent) : sent[k].eiv = sent[k].civ
  /\ \A t \in Threads :
       (op[t] = "decrypt" /\ Finished(t) /\ args[t].how = "none" /\ args[t].ad = Source(t).ad) =>
         ret[t] = ReturnBytes(Expected(Source(t).msg))

\* the first 16 bytes of a key
First16(key) == SubSeq(key, 1, IF Len(key) < 16 THEN Len(key) ELSE 16)

\* the MAC keys the calls of the object in slot i used so far
MacKeysUsed(i) ==
  {sent[k].mac_key : k \in {n \in 1..Len(sent) : sent[n].obj = i /\ sent[n].cls = "Auth"}}
    \cup {loc[t].mac._key : t \in {u \in Threads : op[u] # "none" /\ obj[u] = i
                                                    /\ inst[i].cls = "Auth"}}

\* C6 as stated: every call uses sha256(constant + the key supplied at
\* construction), and objects constructed with different keys use different
\* MAC keys
C6_Original ==
  /\ \A i \in Instances : MacKeysUsed(i) \subseteq {sha2(KeyExtractor \o ctor[i].key)}
  /\ \A i, j \in Instances :
       ctor[i].key # ctor[j].key => MacKeysUsed(i) \cap MacKeysUsed(j) = {}

\* C6 amended: every call of an AEAD object uses sha256(constant + the first
\* 16 bytes of the key supplied at construction), the same in every call, a
\* digest whose length differs from that of the encryption key; objects whose
\* supplied keys differ within the first 16 bytes use different MAC keys
C6_KeySeparation ==
  /\ \A i \in Instances :
       /\ MacKeysUsed(i) \subseteq {sha2(KeyExtractor \o First16(ctor[i].key))}
       /\ inst[i].cls # "none" => DigestSize # Len(inst[i]._key)
  /\ \A i, j \in Instances :
       First16(ctor[i].key) # First16(ctor[j].key) =>
         MacKeysUsed(i) \cap MacKeysUsed(j) = {}

C6_Witness ==
  /\ ctor[1].key = Key32
  /\ ctor[2].key = KeyOther
  /\ MacKeysUsed(1) # {}
  /\ MacKeysUsed(2) # {}
  /\ \E t \in Threads : AuthDecrypt(t) /\ Finished(t) /\ ret[t].kind = "bytes"

\* C7 as stated: every decrypt call of the AEAD class ends either verified
\* and decrypted, returning a plaintext, or rejected with the invalid-mac error
C7_Original ==
  \A t \in Threads :
    (AuthDecrypt(t) /\ Finished(t)) =>
      \/ trace[t] = <<"verify_True", "sym_decrypt", "cipher">> /\ ret[t].kind = "bytes"
      \/ trace[t] = <<"verify_False">> /\ ret[t] = Raise("InvalidMac")

\* C7 amended: every decrypt call of the AEAD class ends in one of: verified
\* and decrypted, returning a plaintext; rejected with the invalid-mac error
\* before any decryption; the unsupported-algorithm error raised by verify
\* before any decryption; a decoding, cipher or padding error raised by the
\* symmetric decryption after verify returned True
C7_CallStateMachine ==
  \A t \in Threads :
    (AuthDecrypt(t) /\ Finished(t)) =>
      \/ trace[t] = <<"verify_True", "sym_decrypt", "cipher">> /\ ret[t].kind = "bytes"
      \/ trace[t] = <<"verify_False">> /\ ret[t] = Raise("InvalidMac")
      \/ trace[t] = <<"verify_raise">> /\ ret[t] = Raise("UnsupportedAlgorithm")
      \/ /\ trace[t] = <<"verify_True", "sym_decrypt">>
         /\ ret[t] = Raise("DecodingError")
      \/ /\ trace[t] = <<"verify_True", "sym_decrypt", "cipher">>
         /\ ret[t] \in {Raise("CipherError"), Raise("PaddingError")}

C7_Witness ==
  \E t \in Threads :
    /\ AuthDecrypt(t)
    /\ Finished(t)
    /\ trace[t] = <<"verify_True", "sym_decrypt">>
    /\ ret[t] = Raise("DecodingError")

\* C8: an object holds a key of exactly 16 bytes, the first 16 bytes of the
\* key its constructor was given, in every state of its life; a constructor
\* call with a shorter key leaves no object
C8_KeyLength ==
  \A i \in Instances :
    /\ inst[i].cls # "none" =>
         /\ Len(inst[i]._key) = 16
         /\ Len(ctor[i].key) >= 16
         /\ inst[i]._key = SubSeq(ctor[i].key, 1, 16)
    /\ (ctor[i].tried /\ Len(ctor[i].key) < 16) => inst[i].cls = "none"
    /\ \A k \in 1..Len(sent) : sent[k].obj = i => sent[k].key = inst[i]._key

C8_Witness ==
  /\ inst[1].cls # "none"
  /\ Len(ctor[1].key) = 32
  /\ ctor[2].tried
  /\ ctor[2].key = KeyShort
  /\ inst[2].cls = "none"
  /\ \E k \in 1..Len(sent) : sent[k].obj = 1
  /\ \E t \in Threads : op[t] = "decrypt" /\ Finished(t) /\ obj[t] = 1

\* C9: when calls run one after another, every encrypt call draws exactly one
\* IV of block size length, binds its cipher instance to it and emits it, no
\* two encrypt calls share an IV, and a decrypt call draws nothing and binds
\* its cipher instance to the IV of the envelope
C9_IVFreshness ==
  /\ \A k \in 1..Len(sent) :
       /\ sent[k].drew = 1
       /\ Len(sent[k].drawn) = 16
       /\ sent[k].civ = sent[k].drawn
       /\ sent[k].eiv = sent[k].drawn
  /\ \A k, l \in 1..Len(sent) : k # l => sent[k].eiv # sent[l].eiv
  /\ rand = Len(sent) + Cardinality({t \in Threads : pc[t] \in {"enc_prp", "enc_ct"}})
  /\ \A t \in Threads :
       op[t] = "decrypt" =>
         /\ drew[t] = 0
         /\ (Finished(t) /\ ret[t].kind = "bytes") =>
              loc[t].cipher.IV = b64decode(JsonLoads(args[t].env.msg).IV).val

C9_Witness ==
  /\ Len(sent) = 2
  /\ sent[1].msg = sent[2].msg
  /\ \E t \in Threads : op[t] = "decrypt" /\ Finished(t) /\ ret[t].kind = "bytes"

\* C10: verify returns True, and decrypt returns a plaintext, only for a
\* message some earlier encrypt call of the object produced with additional
\* data of the same byte form
C10_PairAuthenticity ==
  \A t \in Threads :
    (AuthDecrypt(t) /\ Len(trace[t]) >= 1 /\ trace[t][1] = "verify_True") =>
      \E k \in 1..Len(sent) :
        /\ sent[k].env.msg = args[t].env.msg
        /\ AdForm(sent[k].ad) = AdForm(args[t].ad)
====
